---- MODULE Spec2Model ----
(***************************************************************************)
(* A model of the product risk analyser: src/analyzer.py (identifier       *)
(* extraction, marketplace scraper, response extraction, orchestrator)     *)
(* and the row loop of src/app.py.                                         *)
(*                                                                         *)
(* Text is a sequence of units.  A unit is one character, or an opaque     *)
(* chunk of text that no operation of the program looks inside.  The CJK   *)
(* characters of the source are written as ASCII units (their pinyin):     *)
(*   shi1 bai  = the failure marker        di/zhong/gao feng xian = the    *)
(*   three risk words    jie xi shi1 bai = the parse-failure default       *)
(* Python values are records [t, v, items]: t the type, v the text of a    *)
(* str (the decimal digits of an int), items the elements of a list.       *)
(***************************************************************************)
EXTENDS Integers, Sequences, FiniteSets, TLC

(***************************************************************************)
(* Bounds of the model.                                                    *)
(***************************************************************************)
MaxRetries == 3
MaxRows == 2

(***************************************************************************)
(* Program constants.                                                      *)
(***************************************************************************)
AsinLen == 10
RawLimit == 300
DefaultMaxRetries == 5

(***************************************************************************)
(* Python values.                                                          *)
(***************************************************************************)
PyStr(s) == [t |-> "str", v |-> s, items |-> <<>>]
PyNone == [t |-> "NoneType", v |-> <<>>, items |-> <<>>]
PyInt(digits) == [t |-> "int", v |-> digits, items |-> <<>>]
PyList(xs) == [t |-> "list", v |-> <<>>, items |-> xs]
IsStr(x) == x.t = "str"
\* Python truthiness of a value: None, "" , 0-length list are falsy.
Truthy(x) ==
  CASE x.t = "NoneType" -> FALSE
    [] x.t = "str" -> x.v # <<>>
    [] x.t = "list" -> x.items # <<>>
    [] OTHER -> x.v # <<"0">>
PyFloat(digits) == [t |-> "float", v |-> digits, items |-> <<>>]
NaN == PyFloat(<<"n", "a", "n">>)
\* repr(x) of a value that is not a list
PyRepr(x) ==
  CASE x.t = "NoneType" -> <<"N", "o", "n", "e">>
    [] x.t = "str" -> <<"'">> \o x.v \o <<"'">>
    [] OTHER -> x.v
\* the texts xs[1], sep, xs[2], sep, ... in one text (sep.join(xs))
RECURSIVE Join(_, _)
Join(sep, xs) ==
  IF xs = <<>> THEN <<>>
  ELSE IF Len(xs) = 1 THEN xs[1]
  ELSE xs[1] \o sep \o Join(sep, Tail(xs))
\* str(x)
PyToStr(x) ==
  CASE x.t = "NoneType" -> <<"N", "o", "n", "e">>
    [] x.t = "list" ->
         <<"[">> \o Join(<<",", " ">>, [n \in 1..Len(x.items) |-> PyRepr(x.items[n])]) \o <<"]">>
    [] OTHER -> x.v

(***************************************************************************)
(* Text helpers (str methods of Python).                                   *)
(***************************************************************************)
Min(a, b) == IF a < b THEN a ELSE b
Whitespace == {" ", "\n", "\r", "\t"}
\* s.strip(): from the first to the last character that is not whitespace
Strip(s) ==
  IF \A n \in 1..Len(s) : s[n] \in Whitespace THEN <<>>
  ELSE SubSeq(s,
         CHOOSE n \in 1..Len(s) :
           s[n] \notin Whitespace /\ \A m \in 1..(n - 1) : s[m] \in Whitespace,
         CHOOSE n \in 1..Len(s) :
           s[n] \notin Whitespace /\ \A m \in (n + 1)..Len(s) : s[m] \in Whitespace)
\* s.startswith(p) at offset i (1-based)
MatchAt(s, p, i) == i + Len(p) - 1 <= Len(s) /\ SubSeq(s, i, i + Len(p) - 1) = p
\* s.replace(p, r) for a non-empty p: every non-overlapping occurrence, left
\* to right (the leftmost occurrence, then the same on what follows it)
RECURSIVE Replace(_, _, _)
Replace(s, p, r) ==
  LET at == {i \in 1..Len(s) : MatchAt(s, p, i)}
  IN IF at = {} THEN s
     ELSE LET i == CHOOSE i \in at : \A j \in at : i <= j
          IN SubSeq(s, 1, i - 1) \o r \o Replace(SubSeq(s, i + Len(p), Len(s)), p, r)
\* p in s
Contains(s, p) == \E i \in 1..(Len(s) + 1) : MatchAt(s, p, i)
\* s.find(c): 0-based index of the first occurrence, -1 when none
Find(s, c) ==
  IF \E i \in 1..Len(s) : s[i] = c
  THEN (CHOOSE i \in 1..Len(s) : s[i] = c /\ \A j \in 1..(i - 1) : s[j] # c) - 1
  ELSE -1
\* s.rfind(c)
RFind(s, c) ==
  IF \E i \in 1..Len(s) : s[i] = c
  THEN (CHOOSE i \in 1..Len(s) : s[i] = c /\ \A j \in (i + 1)..Len(s) : s[j] # c) - 1
  ELSE -1
\* s[a:b] for 0 <= a, 0 <= b
Slice(s, a, b) == SubSeq(s, a + 1, Min(b, Len(s)))

LowerLetters ==
  <<"a", "b", "c", "d", "e", "f", "g", "h", "i", "j", "k", "l", "m",
    "n", "o", "p", "q", "r", "s", "t", "u", "v", "w", "x", "y", "z">>
UpperLetters ==
  <<"A", "B", "C", "D", "E", "F", "G", "H", "I", "J", "K", "L", "M",
    "N", "O", "P", "Q", "R", "S", "T", "U", "V", "W", "X", "Y", "Z">>
Digits == {"0", "1", "2", "3", "4", "5", "6", "7", "8", "9"}
IsLower(c) == \E i \in 1..26 : LowerLetters[i] = c
IsUpper(c) == \E i \in 1..26 : UpperLetters[i] = c
\* [A-Z0-9] under re.IGNORECASE
IsAlnum(c) == IsLower(c) \/ IsUpper(c) \/ c \in Digits
\* \w
IsWord(c) == IsAlnum(c) \/ c = "_"
UpperChar(c) == IF IsLower(c) THEN UpperLetters[CHOOSE i \in 1..26 : LowerLetters[i] = c] ELSE c
\* s.upper()
Upper(s) == [i \in 1..Len(s) |-> UpperChar(s[i])]

(***************************************************************************)
(* extract_asin (src/analyzer.py 40-50).  NoMatch is re.search's None.     *)
(***************************************************************************)
NoMatch == 0
AllAlnum(s, i, n) == i + n - 1 <= Len(s) /\ \A k \in i..(i + n - 1) : IsAlnum(s[k])
\* re.search(r"/dp/([A-Z0-9]{10})", s, re.IGNORECASE): start of group 1
DpMatchAt(s, i) ==
  /\ i + 3 <= Len(s)
  /\ Upper(SubSeq(s, i, i + 3)) = <<"/", "D", "P", "/">>
  /\ AllAlnum(s, i + 4, AsinLen)
\* mutant: the path-embedded form is never looked for
SearchDpNever(s) == NoMatch
SearchDp(s) ==
  IF \E i \in 1..Len(s) : DpMatchAt(s, i)
  THEN (CHOOSE i \in 1..Len(s) : DpMatchAt(s, i) /\ \A j \in 1..(i - 1) : ~DpMatchAt(s, j)) + 4
  ELSE NoMatch
\* re.search(r"\b([A-Z0-9]{10})\b", s, re.IGNORECASE): start of group 1
TokenMatchAt(s, i) ==
  /\ AllAlnum(s, i, AsinLen)
  /\ (i = 1 \/ ~IsWord(s[i - 1]))
  /\ (i + AsinLen > Len(s) \/ ~IsWord(s[i + AsinLen]))
SearchToken(s) ==
  IF \E i \in 1..Len(s) : TokenMatchAt(s, i)
  THEN CHOOSE i \in 1..Len(s) : TokenMatchAt(s, i) /\ \A j \in 1..(i - 1) : ~TokenMatchAt(s, j)
  ELSE NoMatch
\* value: a Python value (str or None); the result is a str or None
extract_asin(value) ==
  IF ~Truthy(value) THEN PyNone
  ELSE LET s == Strip(PyToStr(value))
           m1 == SearchDp(s)
           m2 == SearchToken(s)
       IN IF m1 # NoMatch THEN PyStr(Upper(SubSeq(s, m1, m1 + AsinLen - 1)))
          ELSE IF m2 # NoMatch THEN PyStr(Upper(SubSeq(s, m2, m2 + AsinLen - 1)))
          ELSE PyNone

(***************************************************************************)
(* _looks_like_captcha (src/analyzer.py 69-79).  A page body is modelled   *)
(* by the set of phrases its lower-cased text contains and by the elements *)
(* BeautifulSoup finds in it.  An empty body (the early "not html" return) *)
(* contains no phrase, so the phrase test below already answers False.     *)
(***************************************************************************)
Phrases ==
  {"type the characters", "enter the characters", "automated access",
   "/errors/validatecaptcha", "captcha", "amazon"}
_looks_like_captcha(html) ==
  \/ "type the characters" \in html.phrases
  \/ "enter the characters" \in html.phrases
  \/ "automated access" \in html.phrases
  \/ "/errors/validatecaptcha" \in html.phrases
  \/ ("captcha" \in html.phrases /\ "amazon" \in html.phrases)

\* The page bodies the marketplace answers with.  malformed: handling the
\* body raises a non-network exception (BeautifulSoup, get_text).
Page(ph, by, po, mi, bad) ==
  [phrases |-> ph, byline |-> by, pobrand |-> po, merchant |-> mi, malformed |-> bad]
BylineText == <<"Visit the ", "Acme", " Store">>
PoBrandText == <<"Acme">>
MerchantText == <<"Ships from Amazon", " ", "Sold by Acme Direct">>
Pages ==
  { Page({"automated access"}, PyNone, PyNone, PyNone, FALSE),
    Page({"captcha", "amazon"}, PyStr(BylineText), PyNone, PyStr(MerchantText), FALSE),
    Page({"amazon"}, PyStr(BylineText), PyStr(PoBrandText), PyStr(MerchantText), FALSE),
    Page({"captcha"}, PyNone, PyStr(PoBrandText), PyNone, FALSE),
    Page({"amazon"}, PyNone, PyNone, PyNone, FALSE),
    Page({"amazon"}, PyNone, PyNone, PyNone, TRUE) }
\* requests.exceptions.RequestException subclasses raised by get / raise_for_status
RequestErrors == {"ConnectionError", "HTTPError"}

(***************************************************************************)
(* Sentinel texts of get_amazon_seller_info and analyze_product.           *)
(***************************************************************************)
CaptchaBlocked == <<"Captcha Blocked">>
BrandNotFound == <<"Brand Not Found">>
SoldByNotFound == <<"Sold By Not Found">>
ScrapeFailed(cls) == <<"pa", "chong", "shi1", "bai", " ", "(", cls, ")">>
RetriesExceeded ==
  <<"pa", "chong", "shi1", "bai", " ", "(", "chao", "chu", "chong2", "shi4", "ci", "shu", ")">>
ParseFailed(e) == <<"jie", "xi", "shi1", "bai", ":", " ">> \o e
Pending == <<"dai", "chu", "li">>
ParseException == <<"Exception raised while parsing the page">>

\* src/analyzer.py 100-107: the (brand, sold_by) pair read from a page
PageBrand(html) ==
  LET brand_element == IF html.byline # PyNone THEN html.byline ELSE html.pobrand
      brand == IF brand_element # PyNone THEN Strip(brand_element.v) ELSE BrandNotFound
  IN Strip(Replace(Replace(brand, <<"Visit the ">>, <<>>), <<" Store">>, <<>>))
PageSoldBy(html) ==
  IF html.merchant # PyNone THEN Strip(html.merchant.v) ELSE SoldByNotFound

\* What one iteration of the retry loop does with the answer to its GET
\* (src/analyzer.py 88-118).  resp is [err |-> class name] for a
\* RequestException, or [err |-> "", html |-> page] for a 2xx response.
\* done: the function returns (brand, sold_by); sleeps: jitter sleeps made.
\* mutant: the sleep is made after the last attempt too
RetrySleepsAlways(attempt, max_retries) == 1
RetrySleeps(attempt, max_retries) == IF attempt < max_retries - 1 THEN 1 ELSE 0
OnRequestException(cls, attempt, max_retries) ==
  IF RetrySleeps(attempt, max_retries) = 1
  THEN [done |-> FALSE, outcome |-> "retry", brand |-> <<>>, sold_by |-> <<>>, sleeps |-> 1]
  ELSE [done |-> TRUE, outcome |-> "netfail", brand |-> ScrapeFailed(cls),
        sold_by |-> ScrapeFailed(cls), sleeps |-> 0]
\* mutant: a block page is followed by the courtesy sleep
OnCaptchaSleeps ==
  [done |-> TRUE, outcome |-> "captcha", brand |-> CaptchaBlocked,
   sold_by |-> CaptchaBlocked, sleeps |-> 1]
OnCaptcha ==
  [done |-> TRUE, outcome |-> "captcha", brand |-> CaptchaBlocked,
   sold_by |-> CaptchaBlocked, sleeps |-> 0]
\* mutant: a parse failure leaves the seller at its not-found text
OnParseExceptionMixed ==
  [done |-> TRUE, outcome |-> "parsefail", brand |-> ParseFailed(ParseException),
   sold_by |-> SoldByNotFound, sleeps |-> 0]
\* mutant: a page that parses is returned without the courtesy sleep
OnPageNoSleep(html) ==
  [done |-> TRUE, outcome |-> "success", brand |-> PageBrand(html),
   sold_by |-> PageSoldBy(html), sleeps |-> 0]
\* mutant: an exception raised while parsing is retried like a network error
OnParseExceptionRetried ==
  [done |-> FALSE, outcome |-> "retry", brand |-> <<>>, sold_by |-> <<>>, sleeps |-> 1]
OnParseException ==
  [done |-> TRUE, outcome |-> "parsefail", brand |-> ParseFailed(ParseException),
   sold_by |-> ParseFailed(ParseException), sleeps |-> 0]
OnPage(html) ==
  [done |-> TRUE, outcome |-> "success", brand |-> PageBrand(html),
   sold_by |-> PageSoldBy(html), sleeps |-> 1]
ScrapeStep(resp, attempt, max_retries) ==
  IF resp.err # "" THEN OnRequestException(resp.err, attempt, max_retries)
  ELSE IF _looks_like_captcha(resp.html) THEN OnCaptcha
  ELSE IF resp.html.malformed THEN OnParseException
  ELSE OnPage(resp.html)
Responses ==
  [err : RequestErrors, html : {PyNone}] \cup [err : {""}, html : Pages]
\* The row loop is explored with one answer of each class (network error,
\* block page, page that parses, page whose parsing raises).
AppResponses ==
  { [err |-> "ConnectionError", html |-> PyNone],
    [err |-> "", html |-> Page({"automated access"}, PyNone, PyNone, PyNone, FALSE)],
    [err |-> "", html |-> Page({"amazon"}, PyStr(BylineText), PyStr(PoBrandText),
                               PyStr(MerchantText), FALSE)],
    [err |-> "", html |-> Page({"amazon"}, PyNone, PyNone, PyNone, TRUE)] }
ResponsesOf(caller) == IF caller = "app" THEN AppResponses ELSE Responses

(***************************************************************************)
(* _extract_json (src/analyzer.py 160-176).                                *)
(*                                                                         *)
(* A JSON string literal, the word null and a number are one unit each     *)
(* (the program never looks inside them before json.loads does); braces,   *)
(* brackets, colon, comma, whitespace, backquotes and prose characters are  *)
(* characters.  The literals stand for:                                    *)
(*   ZongHeFengXianDengJi   overall risk level (key)                       *)
(*   ShiFouFuHeYaoQiu       compliance verdict (key)                       *)
(*   ZhuYaoFengXianLeiXing  main risk types (key)                          *)
(*   FengXianGuiBiJianYi    avoidance advice (key)                         *)
(*   FenXiLiYou             reasoning (key)                                *)
(* json.loads is modelled on objects whose values are strings, numbers,    *)
(* null or lists of those, which is the fragment ModelTexts is drawn from. *)
(***************************************************************************)
K_Brand == "Brand (Amazon)"
K_SoldBy == "Sold By (Amazon)"
K_Risk == "ZongHeFengXianDengJi"
K_Verdict == "ShiFouFuHeYaoQiu"
K_Types == "ZhuYaoFengXianLeiXing"
K_Advice == "FengXianGuiBiJianYi"
K_Reason == "FenXiLiYou"
K_Link == "QinQuanSuYuanLianJie"

GaoFengXian == <<"gao", "feng", "xian">>
DiFengXian == <<"di", "feng", "xian">>
StrLits ==
  {K_Risk, K_Verdict, K_Types, K_Advice, K_Reason, "a",
   "'gao feng xian'", "'di feng xian'", "'fou'", "'shang biao qin quan'",
   "'wai guan zhuan li'", "'advice'", "'reason'"}
NumLits == {"1"}
\* the text of a string literal: its content without the quotes
DecodeLit(u) ==
  CASE u = "'gao feng xian'" -> GaoFengXian
    [] u = "'di feng xian'" -> DiFengXian
    [] u = "'fou'" -> <<"fou">>
    [] u = "'shang biao qin quan'" -> <<"shang", "biao", "qin", "quan">>
    [] u = "'wai guan zhuan li'" -> <<"wai", "guan", "zhuan", "li">>
    [] u = "'advice'" -> <<"1", ".", " ", "advice">>
    [] u = "'reason'" -> <<"reason">>
    [] OTHER -> <<u>>
IsAtom(u) == u \in StrLits \cup NumLits \cup {"null"}
AtomValue(u) ==
  IF u \in StrLits THEN PyStr(DecodeLit(u))
  ELSE IF u = "null" THEN PyNone
  ELSE PyInt(<<u>>)
Unit(s, p) == IF p >= 1 /\ p <= Len(s) THEN s[p] ELSE "<end>"
ParseFail == [ok |-> FALSE, val |-> PyNone, next |-> 0]
\* the elements of a list after its opening bracket, up to the closing one
RECURSIVE ParseItems(_, _, _)
ParseItems(s, p, acc) ==
  IF ~IsAtom(Unit(s, p)) THEN ParseFail
  ELSE LET acc2 == Append(acc, AtomValue(s[p]))
       IN IF Unit(s, p + 1) = "," THEN ParseItems(s, p + 2, acc2)
          ELSE IF Unit(s, p + 1) = "]" THEN [ok |-> TRUE, val |-> PyList(acc2), next |-> p + 2]
          ELSE ParseFail
\* a string literal written character by character: the position of the
\* quote that closes the one at p (0 when the literal is not closed)
QuoteEnd(s, p) ==
  IF \E q \in (p + 1)..Len(s) : s[q] = "\""
  THEN CHOOSE q \in (p + 1)..Len(s) : s[q] = "\"" /\ \A m \in (p + 1)..(q - 1) : s[m] # "\""
  ELSE 0
ParseValue(s, p) ==
  IF IsAtom(Unit(s, p)) THEN [ok |-> TRUE, val |-> AtomValue(s[p]), next |-> p + 1]
  ELSE IF Unit(s, p) = "\""
       THEN IF QuoteEnd(s, p) = 0 THEN ParseFail
            ELSE [ok |-> TRUE, val |-> PyStr(SubSeq(s, p + 1, QuoteEnd(s, p) - 1)),
                  next |-> QuoteEnd(s, p) + 1]
  ELSE IF Unit(s, p) = "["
       THEN IF Unit(s, p + 1) = "]" THEN [ok |-> TRUE, val |-> PyList(<<>>), next |-> p + 2]
            ELSE ParseItems(s, p + 1, <<>>)
  ELSE ParseFail
EmptyDict == [k \in {} |-> PyNone]
DictSet(d, key, val) == [k \in DOMAIN d \cup {key} |-> IF k = key THEN val ELSE d[k]]
\* dict.get(key, default)
DictGet(d, key, default) == IF key \in DOMAIN d THEN d[key] ELSE default
JsonError == <<"JSONDecodeError message">>
LoadsFail == [ok |-> FALSE, payload |-> EmptyDict, err |-> JsonError]
\* the members of an object after its opening brace, up to the closing
\* brace that ends the text
RECURSIVE ParseMembers(_, _, _)
ParseMembers(s, p, acc) ==
  IF Unit(s, p) \notin StrLits \/ Unit(s, p + 1) # ":" THEN LoadsFail
  ELSE LET r == ParseValue(s, p + 2)
       IN IF ~r.ok THEN LoadsFail
          ELSE LET acc2 == DictSet(acc, s[p], r.val)
               IN IF Unit(s, r.next) = "," THEN ParseMembers(s, r.next + 1, acc2)
                  ELSE IF Unit(s, r.next) = "}" /\ r.next = Len(s)
                       THEN [ok |-> TRUE, payload |-> acc2, err |-> <<>>]
                  ELSE LoadsFail
\* json.loads of a text that starts with an opening brace
json_loads(text) ==
  LET s == SelectSeq(text, LAMBDA u : u \notin Whitespace)
  IN IF Unit(s, 1) # "{" THEN LoadsFail
     ELSE IF Unit(s, 2) = "}" /\ Len(s) = 2 THEN [ok |-> TRUE, payload |-> EmptyDict, err |-> <<>>]
     ELSE ParseMembers(s, 2, EmptyDict)

\* the backquote character (a string of this module cannot hold one)
BQ == "backquote"
FenceJson == <<BQ, BQ, BQ, "j", "s", "o", "n">>
Fence == <<BQ, BQ, BQ>>
\* The fallback re.search for a brace-delimited span (greedy, DOTALL): from
\* the leftmost opening brace that a closing brace follows, up to the last
\* closing brace; the empty text when there is no match.
RegexBraceSpan(s) ==
  IF \E m \in 1..Len(s) : s[m] = "{" /\ \E n \in (m + 1)..Len(s) : s[n] = "}"
  THEN SubSeq(s, Find(s, "{") + 1, RFind(s, "}") + 1)
  ELSE <<>>
\* text: the Python value of resp.text (a str or None).  The result is the
\* parsed object (ok) or the message of the exception raised (~ok).
_extract_json(text) ==
  IF ~Truthy(text)
  THEN [ok |-> FALSE, payload |-> EmptyDict, err |-> <<"Empty response: line 1 column 1 (char 0)">>]
  ELSE LET cleaned == Strip(Replace(Replace(Strip(text.v), FenceJson, <<>>), Fence, <<>>))
           start == Find(cleaned, "{")
           end == RFind(cleaned, "}")
       IN IF start = -1 \/ end = -1 \/ end <= start
          THEN IF RegexBraceSpan(cleaned) = <<>>
               THEN [ok |-> FALSE, payload |-> EmptyDict,
                     err |-> <<"JSON pi pei shi bai: line 1 column 1 (char 0)">>]
               ELSE json_loads(RegexBraceSpan(cleaned))
          ELSE json_loads(Slice(cleaned, start, end + 1))

\* the text of the model's response
Pad(n) == [k \in 1..n |-> "x"]
TextFull ==
  <<"{", K_Risk, ":", "'gao feng xian'", ",", K_Verdict, ":", "'fou'", ",",
    K_Types, ":", "[", "'shang biao qin quan'", ",", "'wai guan zhuan li'", "]", ",",
    K_Advice, ":", "'advice'", ",", K_Reason, ":", "'reason'", "}">>
TextFenced ==
  <<"x", ":", "\n">> \o FenceJson \o <<"\n", "{", K_Risk, ":", " ", "'di feng xian'", "}", "\n">>
  \o Fence \o <<"\n", "x">>
TextEmptyObject == <<"{", "}">>
TextNoBraces == <<"x", " ", "x">>
TextBadJson == <<"{", "x", "}">>
TextLong == Pad(RawLimit + 1)
\* an object that gives the risk level as null and the advice as a number
ObjNullRisk == <<"{", K_Risk, ":", "null", ",", K_Advice, ":", "1", "}">>
ModelTexts ==
  {TextFull, TextFenced, TextEmptyObject, TextNoBraces, TextBadJson, TextLong, ObjNullRisk,
   <<>>}

(***************************************************************************)
(* The output record of analyze_product (src/analyzer.py 211-268).         *)
(***************************************************************************)
ResultKeys ==
  {K_Brand, K_SoldBy, K_Risk, K_Verdict, K_Types, K_Advice, K_Reason, K_Link}
ApiErrorLevel == <<"A", "P", "I", " ", "E", "R", "R", "O", "R">>
ModelErrorLevel == <<"M", "O", "D", "E", "L", " ", "E", "R", "R", "O", "R">>
FormatErrorLevel == <<"A", "I", "shi1", "bai", "/", "ge", "shi4", "cuo", "wu">>
ParseDefault == <<"jie", "xi", "shi1", "bai">>
Empty == PyStr(<<>>)
ApiErrorRecord(brand, sold_by, e) ==
  (K_Brand :> PyStr(brand)) @@ (K_SoldBy :> PyStr(sold_by))
  @@ (K_Risk :> PyStr(ApiErrorLevel)) @@ (K_Verdict :> Empty)
  @@ (K_Types :> Empty) @@ (K_Advice :> Empty)
  @@ (K_Reason :> PyStr(ApiErrorLevel \o <<":", " ">> \o e)) @@ (K_Link :> Empty)
ModelErrorRecord(brand, sold_by, e) ==
  (K_Brand :> PyStr(brand)) @@ (K_SoldBy :> PyStr(sold_by))
  @@ (K_Risk :> PyStr(ModelErrorLevel)) @@ (K_Verdict :> Empty)
  @@ (K_Types :> Empty) @@ (K_Advice :> Empty)
  @@ (K_Reason :> PyStr(ModelErrorLevel \o <<":", " ">> \o e)) @@ (K_Link :> Empty)
\* src/analyzer.py 242-246
RiskTypesStr(payload) ==
  LET risk_types == DictGet(payload, K_Types, Empty)
  IN IF risk_types.t = "list"
     THEN Join(<<",", " ">>, [n \in 1..Len(risk_types.items) |-> PyToStr(risk_types.items[n])])
     ELSE PyToStr(risk_types)
\* mutant: a missing reasoning text defaults to the empty string
ReasonDefaultEmpty(model_text) == Empty
\* the default of payload.get for the reasoning text (line 255)
ReasonDefault(model_text) == model_text
SuccessRecord(brand, sold_by, payload, model_text) ==
  (K_Brand :> PyStr(brand)) @@ (K_SoldBy :> PyStr(sold_by))
  @@ (K_Risk :> DictGet(payload, K_Risk, PyStr(ParseDefault)))
  @@ (K_Verdict :> DictGet(payload, K_Verdict, PyStr(ParseDefault)))
  @@ (K_Types :> PyStr(RiskTypesStr(payload)))
  @@ (K_Advice :> DictGet(payload, K_Advice, Empty))
  @@ (K_Reason :> DictGet(payload, K_Reason, ReasonDefault(model_text)))
  @@ (K_Link :> Empty)
\* the f-string of src/analyzer.py 266, for a model_text that is a str
RawExcerpt(text) == Slice(text, 0, RawLimit)
FailureReason(e, text) ==
  <<"fen", "xi", "shi1", "bai", "ju_hao", "cuo", "wu", ":", " ">> \o e
  \o <<".", " ", "yuan", "shi3", "fan", "hui", ":", " ">> \o RawExcerpt(text) \o <<".", ".", ".">>
\* mutant: the extraction-failure record lacks the provenance link
ExtractFailRecordNoLink(brand, sold_by, e, model_text) ==
  (K_Brand :> PyStr(brand)) @@ (K_SoldBy :> PyStr(sold_by))
  @@ (K_Risk :> PyStr(FormatErrorLevel)) @@ (K_Verdict :> Empty)
  @@ (K_Types :> Empty) @@ (K_Advice :> Empty)
  @@ (K_Reason :> PyStr(<<"fen", "xi", "shi1", "bai">> \o e))
ExtractFailRecord(brand, sold_by, e, model_text) ==
  (K_Brand :> PyStr(brand)) @@ (K_SoldBy :> PyStr(sold_by))
  @@ (K_Risk :> PyStr(FormatErrorLevel)) @@ (K_Verdict :> Empty)
  @@ (K_Types :> Empty) @@ (K_Advice :> Empty)
  @@ (K_Reason :> PyStr(FailureReason(e, model_text.v))) @@ (K_Link :> Empty)
NoRecord == [k \in {} |-> PyNone]
\* src/analyzer.py 240-268: the record returned, or the exception that
\* leaves the handler of line 258 (model_text[:300] on a None)
ParseStep(brand, sold_by, model_text) ==
  LET r == _extract_json(model_text)
  IN IF r.ok
     THEN [raised |-> FALSE, rec |-> SuccessRecord(brand, sold_by, r.payload, model_text)]
     ELSE IF model_text.t # "str"
          THEN [raised |-> TRUE, rec |-> NoRecord]
          ELSE [raised |-> FALSE, rec |-> ExtractFailRecord(brand, sold_by, r.err, model_text)]

(***************************************************************************)
(* analyze_product, step 1 (src/analyzer.py 195-202).                      *)
(***************************************************************************)
OrEmpty(x) == IF Truthy(x) THEN x.v ELSE <<>>
\* mutant: only the brand override is looked at
OverrideGivenBrandOnly(req) == Truthy(req.brand_override)
OverrideGiven(req) == Truthy(req.brand_override) \/ Truthy(req.sold_by_override)
AsinExtracted(asin) == IF Truthy(extract_asin(asin)) THEN extract_asin(asin) ELSE asin
ShouldScrape(asin) == Truthy(AsinExtracted(asin)) /\ Len(AsinExtracted(asin).v) = AsinLen
ResolveStep(req) ==
  IF OverrideGiven(req)
  THEN [scrape |-> FALSE, brand |-> OrEmpty(req.brand_override),
        sold_by |-> OrEmpty(req.sold_by_override), asin |-> PyNone]
  ELSE IF ShouldScrape(req.asin)
       THEN [scrape |-> TRUE, brand |-> Pending, sold_by |-> Pending,
             asin |-> AsinExtracted(req.asin)]
       ELSE [scrape |-> FALSE, brand |-> Pending, sold_by |-> Pending, asin |-> PyNone]

\* download_image_as_pil (src/analyzer.py 53-66): whether a GET is issued
Http == <<"h", "t", "t", "p">>
ImageGetIssued(url) == Truthy(url) /\ MatchAt(PyToStr(url), Http, 1)

\* build_report_bytes (src/app.py 43-58): the text each conditional format
\* looks for in a risk-level cell, and the formats whose rule a cell matches
FormatRules ==
  [format_low |-> <<"di", "feng", "xian">>, format_medium |-> <<"zhong", "feng", "xian">>,
   format_high |-> <<"gao", "feng", "xian">>, format_fail |-> <<"shi1", "bai">>]
MatchingFormats(cell) == {f \in DOMAIN FormatRules : Contains(cell, FormatRules[f])}

\* _clean_cell (src/app.py 15-20)
_clean_cell(value) ==
  IF value.t = "NoneType" THEN <<>>
  ELSE IF value.t = "str"
       THEN [n \in 1..Len(value.v) |-> IF value.v[n] \in {"\n", "\r", "\t"} THEN " " ELSE value.v[n]]
       ELSE PyToStr(value)

(***************************************************************************)
(* Inputs.                                                                 *)
(***************************************************************************)
Canon == <<"B", "0", "7", "X", "J", "8", "C", "8", "F", "5">>
DpUrl ==
  <<"x", "/", "d", "p", "/", "b", "0", "7", "x", "j", "8", "c", "8", "f", "5", "/", "r">>
Underscored == <<"A", "B", "_", "C", "D", "E", "F", "G", "H", "I">>
NanText == <<"n", "a", "n">>
\* the raw identifier field
AsinInputs == {Canon, DpUrl, Underscored, NanText, <<>>}
HttpUrl == Http \o <<":", "/", "/", "img">>
ImageUrls == {PyStr(<<>>), PyStr(HttpUrl), PyStr(NanText)}
BrandOverrides == {PyNone, PyStr(<<>>), PyStr(<<"Acme">>)}
SoldByOverrides == {PyNone, PyStr(<<>>), PyStr(<<"Acme Direct">>)}
Requests ==
  [asin : {PyStr(a) : a \in AsinInputs}, image_url : ImageUrls,
   brand_override : BrandOverrides, sold_by_override : SoldByOverrides]
\* the cells of a row of the uploaded sheet (an empty cell reads as NaN)
AsinCells == {PyStr(DpUrl), PyStr(Underscored), NaN}
ImageCells == {PyStr(HttpUrl), NaN}

\* what client.models.generate_content does: it raises an APIError, raises
\* another exception, or returns a response whose text is a str or None
ModelOutcomes ==
  [kind : {"APIError", "Exception"}, text : {PyNone}]
  \cup [kind : {"response"}, text : {PyStr(t) : t \in ModelTexts} \cup {PyNone}]
\* The row loop is explored with one outcome of each class.
AppModelOutcomes ==
  { [kind |-> "APIError", text |-> PyNone],
    [kind |-> "response", text |-> PyStr(TextFull)],
    [kind |-> "response", text |-> PyStr(TextNoBraces)],
    [kind |-> "response", text |-> PyNone] }
ModelOutcomesOf(caller) == IF caller = "app" THEN AppModelOutcomes ELSE ModelOutcomes
ApiErrorDetail == <<"429 RESOURCE_EXHAUSTED">>
ExceptionDetail == <<"connection reset">>

(***************************************************************************)
(* State.                                                                  *)
(*   entry          who calls analyze_product: "api" (a direct call, with  *)
(*                  any request and max_retries) or "app" (the row loop)   *)
(*   max_retries    cfg.max_retries                                        *)
(*   appPc, i, total, df, calls   the row loop of src/app.py: its          *)
(*                  position, the row index, len(df), the result columns   *)
(*                  of each row, the rows analyze_product was called for   *)
(*   pc             the position in analyze_product                        *)
(*   req            its arguments                                          *)
(*   brand, sold_by, image, model_text   its locals                        *)
(*   scrape_asin    the argument of get_amazon_seller_info (None: not      *)
(*                  invoked); attempt, last_error: its locals              *)
(*   scrapeOutcome  how get_amazon_seller_info returned                    *)
(*   last_resp      the answer to the latest page GET                      *)
(*   model_kind     how the model call ended                               *)
(*   res            the record analyze_product returned                    *)
(*   trace          the external calls and sleeps of this invocation       *)
(*   since_fetch    whether a jitter sleep was made since the latest page  *)
(*                  fetch of the run: "nofetch" (no fetch yet), "nosleep", *)
(*                  "slept"                                                *)
(*   columns        the required columns the uploaded sheet has            *)
(*   fn, arg, ret   a call of one of the pure functions on its own: the    *)
(*                  function applied ("none" before the call), its         *)
(*                  argument and what it returned                          *)
(***************************************************************************)
VARIABLES entry, max_retries, appPc, i, total, df, calls, pc, req, brand, sold_by,
          image, model_text, scrape_asin, attempt, last_error, scrapeOutcome,
          last_resp, model_kind, res, trace, fn, arg, ret, columns, since_fetch

vars == <<entry, max_retries, appPc, i, total, df, calls, pc, req, brand, sold_by,
          image, model_text, scrape_asin, attempt, last_error, scrapeOutcome,
          last_resp, model_kind, res, trace, fn, arg, ret, columns, since_fetch>>
fnVars == <<fn, arg, ret>>
appVars == <<entry, appPc, i, total, df, calls, columns>>

\* src/app.py 137: the title and the description column
RequiredColumns == {"ChanPinBiaoTi", "ChanPinMiaoShu"}
NoRequest ==
  [asin |-> PyNone, image_url |-> PyNone, brand_override |-> PyNone,
   sold_by_override |-> PyNone]
EmptyRow == [k \in ResultKeys |-> <<>>]
NoResponse == [err |-> "none", html |-> PyNone]

\* the locals of an invocation that has not started
IdleLocals ==
  /\ pc = "idle"
  /\ req = NoRequest
  /\ brand = Pending
  /\ sold_by = Pending
  /\ image = "None"
  /\ model_text = PyNone
  /\ scrape_asin = PyNone
  /\ attempt = 0
  /\ last_error = "None"
  /\ scrapeOutcome = "none"
  /\ last_resp = NoResponse
  /\ model_kind = "none"
  /\ res = NoRecord
  /\ trace = <<>>
\* no pure function is called on its own
NoFnCall ==
  /\ fn = "none"
  /\ arg = PyNone
  /\ ret = PyNone

\* a direct call of analyze_product is about to be made, with any cfg
Init ==
  /\ entry = "api"
  /\ max_retries \in 0..MaxRetries
  /\ total = 0
  /\ appPc = "none"
  /\ i = 0
  /\ df = <<>>
  /\ calls = <<>>
  /\ columns = RequiredColumns
  /\ since_fetch = "nofetch"
  /\ IdleLocals
  /\ NoFnCall

\* src/app.py 128-135: a sheet of total rows is loaded, with any of the
\* required columns; cfg keeps the default max_retries
InitApp ==
  /\ entry = "app"
  /\ max_retries = DefaultMaxRetries
  /\ total \in 0..MaxRows
  /\ appPc = "loaded"
  /\ i = 0
  /\ df = [r \in 1..total |-> EmptyRow]
  /\ calls = <<>>
  /\ columns \in SUBSET RequiredColumns
  /\ since_fetch = "nofetch"
  /\ IdleLocals
  /\ NoFnCall

\* the entry into analyze_product: lines 193-195
Enter(request) ==
  /\ pc' = "resolve"
  /\ req' = request
  /\ brand' = Pending
  /\ sold_by' = Pending
  /\ image' = "None"
  /\ model_text' = PyNone
  /\ scrape_asin' = PyNone
  /\ attempt' = 0
  /\ last_error' = "None"
  /\ scrapeOutcome' = "none"
  /\ last_resp' = NoResponse
  /\ model_kind' = "none"
  /\ res' = NoRecord
  /\ trace' = <<>>

\* a direct call of analyze_product
ApiCall ==
  /\ entry = "api"
  /\ pc = "idle"
  /\ \E request \in Requests : Enter(request)
  /\ UNCHANGED <<fnVars, since_fetch, appVars, max_retries>>

\* src/app.py 137-178: a sheet that lacks a required column stops the run;
\* otherwise the result columns are added empty and, once the run button is
\* pressed, the row loop starts
AppCheckColumns ==
  /\ entry = "app"
  /\ appPc = "loaded"
  /\ appPc' = IF RequiredColumns \subseteq columns THEN "rows" ELSE "stopped"
  /\ UNCHANGED <<fnVars, since_fetch, columns, entry, max_retries, i, total,
                 df, calls, pc, req, brand, sold_by, image, model_text,
                 scrape_asin, attempt, last_error, scrapeOutcome, last_resp,
                 model_kind, res, trace>>

\* src/app.py 180-198: one row is read and analyze_product is called
AppRowStart ==
  /\ entry = "app"
  /\ appPc = "rows"
  /\ pc = "idle"
  /\ i < total
  /\ \E asin_cell \in AsinCells, image_cell \in ImageCells :
       LET asin_raw == PyStr(_clean_cell(asin_cell))
           image_url == PyStr(_clean_cell(image_cell))
           asin == IF Truthy(extract_asin(asin_raw)) THEN extract_asin(asin_raw) ELSE asin_raw
       IN Enter([asin |-> asin, image_url |-> image_url, brand_override |-> PyNone,
                 sold_by_override |-> PyNone])
  /\ calls' = Append(calls, i)
  /\ UNCHANGED <<fnVars, since_fetch, columns, entry, max_retries, appPc, i, total, df>>

\* src/analyzer.py 195-202
Resolve ==
  /\ pc = "resolve"
  /\ LET r == ResolveStep(req)
     IN /\ brand' = r.brand
        /\ sold_by' = r.sold_by
        /\ scrape_asin' = r.asin
        /\ pc' = IF r.scrape THEN "scrape" ELSE "image"
  /\ UNCHANGED <<fnVars, since_fetch, appVars, max_retries, req, image,
                 model_text, attempt, last_error, scrapeOutcome, last_resp,
                 model_kind, res, trace>>

\* mutant: the loop makes one attempt more than cfg.max_retries
InRangeInclusive(n, stop) == n <= stop
\* for attempt in range(cfg.max_retries), line 87: the loop body runs
InRange(n, stop) == n < stop

\* src/analyzer.py 87-118: one iteration of the retry loop
ScrapeAttempt ==
  /\ pc = "scrape"
  /\ InRange(attempt, max_retries)
  /\ \E resp \in ResponsesOf(entry) :
       LET r == ScrapeStep(resp, attempt, max_retries)
       IN /\ trace' = trace \o <<"fetch">> \o [n \in 1..r.sleeps |-> "sleep"]
          /\ since_fetch' = IF r.sleeps > 0 THEN "slept" ELSE "nosleep"
          /\ last_error' = IF resp.err # "" THEN resp.err ELSE last_error
          /\ last_resp' = resp
          /\ IF r.done
             THEN /\ brand' = r.brand
                  /\ sold_by' = r.sold_by
                  /\ scrapeOutcome' = r.outcome
                  /\ pc' = "image"
                  /\ UNCHANGED attempt
             ELSE /\ attempt' = attempt + 1
                  /\ UNCHANGED <<brand, sold_by, scrapeOutcome, pc>>
  /\ UNCHANGED <<fnVars, appVars, max_retries, req, image, model_text, scrape_asin,
                 model_kind, res>>

\* src/analyzer.py 120: the loop ended without a return
ScrapeExhausted ==
  /\ pc = "scrape"
  /\ ~InRange(attempt, max_retries)
  /\ brand' = RetriesExceeded
  /\ sold_by' = RetriesExceeded
  /\ scrapeOutcome' = "exhausted"
  /\ pc' = "image"
  /\ UNCHANGED <<fnVars, since_fetch, appVars, max_retries, req, image,
                 model_text, scrape_asin, attempt, last_error, last_resp,
                 model_kind, res, trace>>

\* src/analyzer.py 204 and download_image_as_pil
FetchImage ==
  /\ pc = "image"
  /\ IF ImageGetIssued(req.image_url)
     THEN /\ image' \in {"Image", "None"}
          /\ trace' = Append(trace, "image_get")
     ELSE /\ image' = "None"
          /\ UNCHANGED trace
  /\ pc' = "model"
  /\ UNCHANGED <<fnVars, since_fetch, appVars, max_retries, req, brand,
                 sold_by, model_text, scrape_asin, attempt, last_error,
                 scrapeOutcome, last_resp, model_kind, res>>

\* mutant: the courtesy sleep is made only after a call that returned
ModelSleepsOnReturnOnly(kind) == IF kind = "response" THEN 1 ELSE 0
\* the jitter sleeps that follow the model call: one after a call that
\* returned (line 213), one in each handler (lines 216 and 228)
ModelSleeps(kind) ==
  CASE kind = "response" -> 1
    [] kind = "APIError" -> 1
    [] OTHER -> 1

\* mutant: the response is parsed after a model error too
AfterModelAlwaysParse(kind) == "parse"
\* where analyze_product goes after the model call: both handlers return
\* (lines 217 and 229), a call that returned goes on to line 240
AfterModel(kind) == IF kind \in {"APIError", "Exception"} THEN "returned" ELSE "parse"

\* src/analyzer.py 206-238: the model call, its sleep and its error exits
CallModel ==
  /\ pc = "model"
  /\ \E out \in ModelOutcomesOf(entry) :
       /\ trace' = trace \o <<"generate">> \o [n \in 1..ModelSleeps(out.kind) |-> "sleep"]
       /\ since_fetch' =
            IF since_fetch # "nofetch" /\ ModelSleeps(out.kind) > 0 THEN "slept" ELSE since_fetch
       /\ model_kind' = out.kind
       /\ pc' = AfterModel(out.kind)
       /\ CASE out.kind = "APIError" ->
                 /\ res' = ApiErrorRecord(brand, sold_by, ApiErrorDetail)
                 /\ UNCHANGED model_text
            [] out.kind = "Exception" ->
                 /\ res' = ModelErrorRecord(brand, sold_by, ExceptionDetail)
                 /\ UNCHANGED model_text
            [] OTHER ->
                 /\ model_text' = out.text
                 /\ UNCHANGED res
  /\ UNCHANGED <<fnVars, appVars, max_retries, req, brand, sold_by, image, scrape_asin,
                 attempt, last_error, scrapeOutcome, last_resp>>

\* src/analyzer.py 240-268
ParseResponse ==
  /\ pc = "parse"
  /\ LET r == ParseStep(brand, sold_by, model_text)
     IN /\ res' = r.rec
        /\ pc' = IF r.raised THEN "raised" ELSE "returned"
  /\ trace' = Append(trace, "extract")
  /\ UNCHANGED <<fnVars, since_fetch, appVars, max_retries, req, brand,
                 sold_by, image, model_text, scrape_asin, attempt, last_error,
                 scrapeOutcome, last_resp, model_kind>>

\* src/app.py 200-203: the record is written into the row
AppWriteRow ==
  /\ entry = "app"
  /\ pc = "returned"
  /\ df' = [df EXCEPT ![i + 1] = [k \in ResultKeys |-> _clean_cell(res[k])]]
  /\ i' = i + 1
  /\ pc' = "idle"
  /\ req' = NoRequest
  /\ brand' = Pending
  /\ sold_by' = Pending
  /\ image' = "None"
  /\ model_text' = PyNone
  /\ scrape_asin' = PyNone
  /\ attempt' = 0
  /\ last_error' = "None"
  /\ scrapeOutcome' = "none"
  /\ last_resp' = NoResponse
  /\ model_kind' = "none"
  /\ res' = NoRecord
  /\ trace' = <<>>
  /\ UNCHANGED <<fnVars, since_fetch, columns, entry, max_retries, appPc, total, calls>>

\* an exception that leaves analyze_product leaves the row loop, which has
\* no handler: the script run ends
AppCrash ==
  /\ entry = "app"
  /\ appPc = "rows"
  /\ pc = "raised"
  /\ appPc' = "crashed"
  /\ UNCHANGED <<fnVars, since_fetch, columns, entry, max_retries, i, total,
                 df, calls, pc, req, brand, sold_by, image, model_text,
                 scrape_asin, attempt, last_error, scrapeOutcome, last_resp,
                 model_kind, res, trace>>

\* src/app.py 205-217: the loop is over
AppFinish ==
  /\ entry = "app"
  /\ appPc = "rows"
  /\ pc = "idle"
  /\ i = total
  /\ appPc' = "done"
  /\ UNCHANGED <<fnVars, since_fetch, columns, entry, max_retries, i, total,
                 df, calls, pc, req, brand, sold_by, image, model_text,
                 scrape_asin, attempt, last_error, scrapeOutcome, last_resp,
                 model_kind, res, trace>>

Next ==
  \/ ApiCall
  \/ Resolve
  \/ ScrapeAttempt
  \/ ScrapeExhausted
  \/ FetchImage
  \/ CallModel
  \/ ParseResponse

Spec == Init /\ [][Next]_vars

\* The row loop.  With the default max_retries the retry loop always returns
\* from inside, so line 120 (ScrapeExhausted) is not a step of it.
NextApp ==
  \/ AppCheckColumns
  \/ AppRowStart
  \/ Resolve
  \/ ScrapeAttempt
  \/ FetchImage
  \/ CallModel
  \/ ParseResponse
  \/ AppWriteRow
  \/ AppCrash
  \/ AppFinish

AppSpec == InitApp /\ [][NextApp]_vars

(***************************************************************************)
(* The pure functions called on their own: extract_asin and _extract_json. *)
(***************************************************************************)
LowerCanon == SubSeq(DpUrl, 6, 15)
OtherToken == <<"B", "0", "0", "0", "0", "0", "0", "0", "0", "1">>
DpForm == <<"/", "d", "p", "/">>
\* the raw identifier texts: a prefix, a core and a suffix
AsinPres == {<<>>, <<"s", "e", "e", " ">>, OtherToken \o <<" ">>}
AsinCores ==
  {<<>>, Canon, LowerCanon, Underscored, SubSeq(Canon, 1, 9), Canon \o <<"Z">>,
   DpForm \o LowerCanon, <<"/", "D", "P", "/">> \o Canon \o <<"Z">>}
AsinPosts == {<<>>, <<"/", "r", "e", "f">>, <<" ">> \o OtherToken, <<"_">>, <<"\n">>}
AsinArgs ==
  {PyNone} \cup {PyStr(pre \o core \o post) : pre \in AsinPres, core \in AsinCores,
                                              post \in AsinPosts}
\* the texts of well-formed JSON objects
ObjRisk == <<"{", K_Risk, ":", " ", "'di feng xian'", "}">>
ObjBackquoted == <<"{", K_Advice, ":", "\"", BQ, BQ, BQ, "s", "h", BQ, BQ, BQ, "\"", "}">>
ObjTexts == {TextFull, TextEmptyObject, ObjRisk, ObjNullRisk, ObjBackquoted}
\* prose before and after the object, and the fences around it
ProseBefore ==
  {<<>>, <<"H", "e", "r", "e", ":", "\n">>, <<"s", "e", "t", " ", "{", "k", "}", ":", " ">>}
ProseAfter ==
  {<<>>, <<"\n", "D", "o", "n", "e", ".">>, <<"\n", "(", "s", "e", "e", " ", "{", "k", "}", ")">>}
Fences == {"none", "json", "plain"}
Wrap(pre, fence, o, post) ==
  CASE fence = "none" -> pre \o o \o post
    [] fence = "json" -> pre \o FenceJson \o <<"\n">> \o o \o <<"\n">> \o Fence \o post
    [] OTHER -> pre \o Fence \o <<"\n">> \o o \o <<"\n">> \o Fence \o post
JsonArgs ==
  {PyStr(Wrap(pre, fence, o, post)) : pre \in ProseBefore, fence \in Fences, o \in ObjTexts,
                                      post \in ProseAfter}

InitFn ==
  /\ entry = "fn"
  /\ max_retries = 0
  /\ total = 0
  /\ appPc = "none"
  /\ i = 0
  /\ df = <<>>
  /\ calls = <<>>
  /\ columns = RequiredColumns
  /\ since_fetch = "nofetch"
  /\ IdleLocals
  /\ fn = "none"
  /\ arg \in AsinArgs \cup JsonArgs
  /\ ret = PyNone

\* extract_asin(arg)
CallExtractAsin ==
  /\ entry = "fn"
  /\ fn = "none"
  /\ arg \in AsinArgs
  /\ fn' = "extract_asin"
  /\ ret' = extract_asin(arg)
  /\ UNCHANGED <<arg, since_fetch, appVars, max_retries, pc, req, brand,
                 sold_by, image, model_text, scrape_asin, attempt, last_error,
                 scrapeOutcome, last_resp, model_kind, res, trace>>

\* _extract_json(arg)
CallExtractJson ==
  /\ entry = "fn"
  /\ fn = "none"
  /\ arg \in JsonArgs
  /\ fn' = "_extract_json"
  /\ ret' = _extract_json(arg)
  /\ UNCHANGED <<arg, since_fetch, appVars, max_retries, pc, req, brand,
                 sold_by, image, model_text, scrape_asin, attempt, last_error,
                 scrapeOutcome, last_resp, model_kind, res, trace>>

NextFn == CallExtractAsin \/ CallExtractJson

FnSpec == InitFn /\ [][NextFn]_vars

(***************************************************************************)
(* Properties.                                                             *)
(***************************************************************************)
Count(s, e) == Cardinality({n \in 1..Len(s) : s[n] = e})
\* the events of get_amazon_seller_info: those before the image fetch and
\* the model call
ScraperTrace ==
  LET later == {n \in 1..Len(trace) : trace[n] \in {"image_get", "generate"}}
  IN IF later = {} THEN trace
     ELSE SubSeq(trace, 1, (CHOOSE n \in later : \A m \in later : n <= m) - 1)
\* n fetches with one sleep between each two and none after the last
FailTrace(n) == [k \in 1..(2 * n - 1) |-> IF k % 2 = 1 THEN "fetch" ELSE "sleep"]
ScraperReturned == scrape_asin # PyNone /\ pc \notin {"idle", "resolve", "scrape"}
FailureMarker == <<"shi1", "bai">>

\* C1: for every scraper, image, model-call and response-parse outcome,
\* analyze_product ends by returning a record; it never ends by raising.
C1_NeverRaises == pc # "raised"

\* C2: every record analyze_product returns has exactly the same eight keys
\* and its provenance link is the empty string.
C2_EightKeys ==
  pc = "returned" =>
    /\ DOMAIN res = {"Brand (Amazon)", "Sold By (Amazon)", "ZongHeFengXianDengJi",
                     "ShiFouFuHeYaoQiu", "ZhuYaoFengXianLeiXing", "FengXianGuiBiJianYi",
                     "FenXiLiYou", "QinQuanSuYuanLianJie"}
    /\ res["QinQuanSuYuanLianJie"] = PyStr(<<>>)
C2_Witness ==
  /\ pc = "returned"
  /\ model_kind = "response"
  /\ res[K_Risk] = PyStr(FormatErrorLevel)

\* C3: with max_retries = N >= 1 and a network error on every attempt, the
\* scraper makes exactly N fetches and N-1 sleeps (one between each two
\* attempts, none after the last) and returns the scraping-failure sentinel
\* with the error class name in both elements; the loop never runs out.
C3_RetryBound ==
  /\ (pc = "scrape" /\ max_retries >= 1) =>
       /\ attempt < max_retries
       /\ trace = [k \in 1..(2 * attempt) |-> IF k % 2 = 1 THEN "fetch" ELSE "sleep"]
  /\ (ScraperReturned /\ last_resp.err \in RequestErrors) =>
       /\ max_retries >= 1
       /\ Count(ScraperTrace, "fetch") = max_retries
       /\ Count(ScraperTrace, "sleep") = max_retries - 1
       /\ ScraperTrace = FailTrace(max_retries)
       /\ brand = sold_by
       /\ brand = <<"pa", "chong", "shi1", "bai", " ", "(", last_resp.err, ")">>
C3_Witness ==
  /\ pc = "image"
  /\ last_resp.err \in RequestErrors
  /\ max_retries = 3

\* C4: a 2xx response detected as a block page makes the scraper return
\* ("Captcha Blocked", "Captcha Blocked") at once: no fetch and no sleep
\* follows it, and a block page as the first response gives one fetch and
\* no sleep.
BlockPageAnswered == last_resp.err = "" /\ _looks_like_captcha(last_resp.html)
C4_BlockShortCircuit ==
  BlockPageAnswered =>
    /\ pc # "scrape"
    /\ brand = <<"Captcha Blocked">>
    /\ sold_by = <<"Captcha Blocked">>
    /\ ScraperTrace = FailTrace(attempt + 1)
    /\ (attempt = 0 => ScraperTrace = <<"fetch">>)
    /\ (pc = "returned" => res[K_Brand] = PyStr(<<"Captcha Blocked">>))
C4_Witness ==
  /\ BlockPageAnswered
  /\ pc = "image"
  /\ attempt = 0

\* C5: once row processing has started, analyze_product is called once per
\* row in input order, and no failure on a row stops the batch: the run
\* ends with all rows carrying a record.
C5_BatchCompletes ==
  /\ appPc # "crashed"
  /\ calls = [k \in 1..Len(calls) |-> k - 1]
  /\ (appPc = "done" => i = total /\ Len(calls) = total)

\* C6 (as stated): called with an override brand/seller pair, the scraper is
\* never invoked, no page fetch is issued, and the record's brand and seller
\* equal the pair verbatim on every exit path.
Called == pc \notin {"idle", "resolve"}
OverridePairSupplied == req.brand_override.t = "str" /\ req.sold_by_override.t = "str"
OverrideUsedVerbatim ==
  /\ scrape_asin = PyNone
  /\ Count(trace, "fetch") = 0
  /\ PyStr(brand) = req.brand_override
  /\ PyStr(sold_by) = req.sold_by_override
  /\ (pc = "returned" =>
        res[K_Brand] = req.brand_override /\ res[K_SoldBy] = req.sold_by_override)
C6_Original == (Called /\ OverridePairSupplied) => OverrideUsedVerbatim
\* C6 (amended): the same, for an override pair of which at least one
\* element is not the empty text.
C6_OverrideSkipsScraper ==
  (Called /\ OverridePairSupplied
     /\ (req.brand_override.v # <<>> \/ req.sold_by_override.v # <<>>))
  => OverrideUsedVerbatim
C6_Witness ==
  /\ pc = "returned"
  /\ model_kind = "response"
  /\ req.asin = PyStr(Canon)
  /\ req.brand_override = PyStr(<<"Acme">>)
  /\ req.sold_by_override = PyStr(<<"Acme Direct">>)

\* C7: without an override the scraper is invoked only with the canonical
\* identifier extracted from the raw field (10 upper-case alphanumerics);
\* when the extractor reports absence the scraper is not invoked and brand
\* and seller are both the pending sentinel.
NoOverride == req.brand_override = PyNone /\ req.sold_by_override = PyNone
IsCanonical(x) ==
  /\ x.t = "str"
  /\ Len(x.v) = 10
  /\ \A n \in 1..Len(x.v) : IsUpper(x.v[n]) \/ x.v[n] \in Digits
C7_ScraperOnlyCanonical ==
  (Called /\ NoOverride) =>
    /\ scrape_asin # PyNone =>
         IsCanonical(scrape_asin) /\ scrape_asin = extract_asin(req.asin)
    /\ extract_asin(req.asin) = PyNone =>
         /\ scrape_asin = PyNone
         /\ Count(trace, "fetch") = 0
         /\ brand = <<"dai", "chu", "li">>
         /\ sold_by = <<"dai", "chu", "li">>

\* C8: each failure exit has its own label: APIError gives "API ERROR", any
\* other exception of the model call "MODEL ERROR", a response the Response
\* Extractor cannot parse (empty text, no brace span, invalid JSON) the
\* format-error label with a reasoning text that embeds at most the first
\* 300 characters of the raw output; verdict, risk types and advice are
\* empty and brand and seller are the values resolved before the call.
Ended == pc \in {"returned", "raised"}
ExtractionFails == model_kind = "response" /\ ~_extract_json(model_text).ok
EndsWith(s, p) == Len(p) <= Len(s) /\ SubSeq(s, Len(s) - Len(p) + 1, Len(s)) = p
FailureShape(level) ==
  /\ pc = "returned"
  /\ res[K_Risk] = PyStr(level)
  /\ res[K_Verdict] = PyStr(<<>>)
  /\ res[K_Types] = PyStr(<<>>)
  /\ res[K_Advice] = PyStr(<<>>)
  /\ res[K_Brand] = PyStr(brand)
  /\ res[K_SoldBy] = PyStr(sold_by)
C8_FailureLabels ==
  /\ (Ended /\ model_kind = "APIError") =>
       FailureShape(<<"A", "P", "I", " ", "E", "R", "R", "O", "R">>)
  /\ (Ended /\ model_kind = "Exception") =>
       FailureShape(<<"M", "O", "D", "E", "L", " ", "E", "R", "R", "O", "R">>)
  /\ (Ended /\ ExtractionFails) =>
       /\ FailureShape(<<"A", "I", "shi1", "bai", "/", "ge", "shi4", "cuo", "wu">>)
       /\ res[K_Reason].t = "str"
       /\ EndsWith(res[K_Reason].v,
                   SubSeq(model_text.v, 1, Min(300, Len(model_text.v))) \o <<".", ".", ".">>)
       /\ (Len(model_text.v) > 300 =>
             ~Contains(res[K_Reason].v, SubSeq(model_text.v, 1, 301)))

\* C9: on every failure exit the risk level written to the record matches
\* the gray failure rule of the report and none of the three risk-colour
\* rules.
FailureExit ==
  pc = "returned" /\ (model_kind \in {"APIError", "Exception"} \/ ExtractionFails)
C9_FailuresAreGray ==
  FailureExit => MatchingFormats(_clean_cell(res[K_Risk])) = {"format_fail"}

\* C10 (as stated): when the Response Extractor returns an object, each
\* field the object lacks gets its default: the parse-failure marker for
\* the risk level and the verdict, the empty string for the risk types, the
\* advice and the reasoning text; a list of risk types is joined with ", ".
ParseSucceeds == pc = "returned" /\ model_kind = "response" /\ _extract_json(model_text).ok
Payload == _extract_json(model_text).payload
Lacks(k) == k \notin DOMAIN Payload
DefaultsOtherThanReason ==
  /\ Lacks(K_Risk) => res[K_Risk] = PyStr(<<"jie", "xi", "shi1", "bai">>)
  /\ Lacks(K_Verdict) => res[K_Verdict] = PyStr(<<"jie", "xi", "shi1", "bai">>)
  /\ Lacks(K_Types) => res[K_Types] = PyStr(<<>>)
  /\ Lacks(K_Advice) => res[K_Advice] = PyStr(<<>>)
  /\ (~Lacks(K_Types) /\ Payload[K_Types].t = "list") =>
       res[K_Types] =
         PyStr(Join(<<",", " ">>,
                    [n \in 1..Len(Payload[K_Types].items) |-> PyToStr(Payload[K_Types].items[n])]))
  /\ model_text = PyStr(TextFull) =>
       res[K_Types] = PyStr(<<"shang", "biao", "qin", "quan", ",", " ",
                              "wai", "guan", "zhuan", "li">>)
C10_Original ==
  ParseSucceeds =>
    /\ DefaultsOtherThanReason
    /\ Lacks(K_Reason) => res[K_Reason] = PyStr(<<>>)
\* C10 (amended): the same, but the reasoning text the object lacks is
\* filled with the raw text of the model's response.
C10_Defaults ==
  ParseSucceeds =>
    /\ DefaultsOtherThanReason
    /\ Lacks(K_Reason) => res[K_Reason] = model_text
C10_Witness ==
  /\ ParseSucceeds
  /\ DOMAIN Payload = {}
  /\ model_text = PyStr(<<"{", "}">>)

\* C11: get_amazon_seller_info always returns a pair, and the two elements
\* are in the same state: both the same failure sentinel (blocked, scraping
\* failed, parse failed), or both success values (extracted text or the
\* field's own not-found text); no pair mixes a sentinel with a success value.
HasPrefix(s, p) == Len(p) <= Len(s) /\ SubSeq(s, 1, Len(p)) = p
IsFailureSentinel(x) ==
  \/ x = <<"Captcha Blocked">>
  \/ HasPrefix(x, <<"pa", "chong", "shi1", "bai", " ", "(">>)
  \/ HasPrefix(x, <<"jie", "xi", "shi1", "bai", ":", " ">>)
PageParsed ==
  last_resp.err = "" /\ ~_looks_like_captcha(last_resp.html) /\ ~last_resp.html.malformed
C11_PairSameState ==
  /\ (pc = "raised" => model_kind = "response")
  /\ ScraperReturned =>
       /\ IsFailureSentinel(brand) <=> IsFailureSentinel(sold_by)
       /\ IsFailureSentinel(brand) => brand = sold_by
       /\ PageParsed <=> ~IsFailureSentinel(brand)
       /\ PageParsed =>
            /\ last_resp.html.byline = PyNone /\ last_resp.html.pobrand = PyNone
                 => brand = <<"Brand Not Found">>
            /\ last_resp.html.merchant = PyNone => sold_by = <<"Sold By Not Found">>
C11_Witness ==
  /\ ScraperReturned
  /\ PageParsed
  /\ brand = <<"Acme">>
  /\ sold_by = <<"Sold By Not Found">>

\* C12: a scraper run that ends in success makes exactly one jitter sleep
\* after its final page fetch and before it returns; every model invocation,
\* whether it returned, raised a model-service error or raised any other
\* exception, is followed by exactly one jitter sleep before analyze_product
\* ends.
ModelInvoked == pc \in {"parse", "returned", "raised"}
AfterGenerate ==
  LET g == CHOOSE n \in 1..Len(trace) : trace[n] = "generate"
  IN SubSeq(trace, g + 1, Len(trace))
C12_CourtesySleeps ==
  /\ (ScraperReturned /\ PageParsed) =>
       /\ ScraperTrace = FailTrace(attempt + 1) \o <<"sleep">>
       /\ Count(ScraperTrace, "fetch") = attempt + 1
  /\ ModelInvoked =>
       /\ Count(trace, "generate") = 1
       /\ Len(AfterGenerate) >= 1
       /\ AfterGenerate[1] = "sleep"
       /\ Count(AfterGenerate, "sleep") = 1
  /\ ~ModelInvoked => Count(trace, "generate") = 0
C12_Witness ==
  /\ pc = "returned"
  /\ model_kind = "Exception"
  /\ PageParsed
  /\ attempt = 1

\* C13: for a well-formed JSON object O, _extract_json applied to the text
\* of O wrapped in markdown code fences and/or preceded and followed by
\* prose text returns an object equal to O.
C13_RoundTrip ==
  fn = "_extract_json" =>
    \A pre \in ProseBefore, fence \in Fences, o \in ObjTexts, post \in ProseAfter :
      arg = PyStr(Wrap(pre, fence, o, post)) =>
        /\ json_loads(o).ok
        /\ ret.ok
        /\ ret.payload = json_loads(o).payload

\* C14: extract_asin is idempotent: a code it returns is 10 upper-cased
\* alphanumerics and is returned unchanged when fed back; absence (also for
\* the empty string and None) is reported without an exception; a
\* /dp/<10 alphanumerics> form wins over any standalone 10-character token
\* elsewhere in the text.
HasDpAt(s, k) ==
  /\ k + 13 <= Len(s)
  /\ s[k] = "/" /\ s[k + 1] \in {"d", "D"} /\ s[k + 2] \in {"p", "P"} /\ s[k + 3] = "/"
  /\ \A m \in (k + 4)..(k + 13) : IsLower(s[m]) \/ IsUpper(s[m]) \/ s[m] \in Digits
C14_Idempotent ==
  fn = "extract_asin" =>
    /\ ret # PyNone =>
         /\ ret.t = "str"
         /\ Len(ret.v) = 10
         /\ \A n \in 1..Len(ret.v) : IsUpper(ret.v[n]) \/ ret.v[n] \in Digits
         /\ extract_asin(ret) = ret
    /\ (arg = PyNone \/ arg = PyStr(<<>>)) => ret = PyNone
    /\ arg # PyNone =>
         \A k \in 1..Len(arg.v) :
           (HasDpAt(arg.v, k) /\ \A j \in 1..(k - 1) : ~HasDpAt(arg.v, j)) =>
             ret = PyStr(Upper(SubSeq(arg.v, k + 4, k + 13)))
C14_Witness ==
  /\ fn = "extract_asin"
  /\ arg = PyStr(<<"B", "0", "0", "0", "0", "0", "0", "0", "0", "1", " ", "/", "d", "p", "/",
                   "b", "0", "7", "x", "j", "8", "c", "8", "f", "5">>)
  /\ ret = PyStr(<<"B", "0", "7", "X", "J", "8", "C", "8", "F", "5">>)

\* C15: input errors stop the batch before any row is processed: with a
\* required column missing, or with a row whose identifier is malformed,
\* analyze_product is never invoked for any row of the batch.
MalformedIdentifier ==
  /\ req.asin.t = "str"
  /\ req.asin.v \notin {<<>>, <<"n", "a", "n">>}
  /\ ~IsCanonical(req.asin)
C15_InputErrorsStopBatch ==
  entry = "app" =>
    /\ ~({"ChanPinBiaoTi", "ChanPinMiaoShu"} \subseteq columns) =>
         appPc \in {"loaded", "stopped"} /\ calls = <<>> /\ pc = "idle"
    /\ MalformedIdentifier => pc = "idle"

\* C16: every value of the record analyze_product returns is text (possibly
\* empty) on every exit path, also when the model's JSON object gives a
\* field a null, numeric or other non-text value or omits it; no field
\* holds an absent (null) value.
C16_AllText ==
  pc = "returned" => \A k \in DOMAIN res : res[k].t = "str"

\* C17: every analyze_product invocation terminates, for any max_retries >= 0
\* and any network outcomes, after at most max_retries page fetches, at most
\* one image fetch and at most one model invocation; with max_retries = 0
\* the scraper issues no fetch and returns the retries-exhausted pair.
BoundedCalls ==
  /\ Count(trace, "fetch") <= max_retries
  /\ Count(trace, "image_get") <= 1
  /\ Count(trace, "generate") <= 1
  /\ (ScraperReturned /\ max_retries = 0) =>
       /\ Count(trace, "fetch") = 0
       /\ scrapeOutcome = "exhausted"
       /\ brand = <<"pa", "chong", "shi1", "bai", " ", "(", "chao", "chu", "chong2", "shi4",
                    "ci", "shu", ")">>
       /\ sold_by = brand
\* The steps an invocation can still take.  Every step of analyze_product
\* is one blocking call (the page and image GETs carry
\* timeout=cfg.timeout_seconds, the model call is taken to return or raise),
\* so an invocation whose every step lowers this number ends.
StepsLeft ==
  CASE pc = "idle" -> max_retries + 6
    [] pc = "resolve" -> max_retries + 5
    [] pc = "scrape" -> (max_retries - attempt) + 4
    [] pc = "image" -> 3
    [] pc = "model" -> 2
    [] pc = "parse" -> 1
    [] OTHER -> 0
C17_Terminates ==
  /\ []BoundedCalls
  /\ [](StepsLeft >= 0 /\ (StepsLeft = 0 <=> pc \in {"returned", "raised"}))
  /\ [][StepsLeft' < StepsLeft]_vars
C17_Witness ==
  /\ pc = "returned"
  /\ max_retries = 0
  /\ scrape_asin # PyNone
  /\ Count(trace, "fetch") = 0
  /\ Count(trace, "generate") = 1

\* C18: within one invocation the external calls occur in a fixed order:
\* all page fetches, then the image fetch, then the model invocation; the
\* model is invoked whether or not the scrape or the image fetch succeeded;
\* the Response Extractor runs only after a model invocation that returned
\* without error, never after a model error.
CallOrder(e) ==
  CASE e = "fetch" -> 1
    [] e = "image_get" -> 2
    [] e = "generate" -> 3
    [] e = "extract" -> 4
    [] OTHER -> 0
C18_FixedOrder ==
  /\ \A m \in 1..Len(trace), n \in 1..Len(trace) :
       (m < n /\ trace[m] # "sleep" /\ trace[n] # "sleep") =>
         /\ CallOrder(trace[m]) <= CallOrder(trace[n])
         /\ trace[n] # "fetch" => CallOrder(trace[m]) < CallOrder(trace[n])
  /\ pc \in {"parse", "returned", "raised"} => Count(trace, "generate") = 1
  /\ Count(trace, "extract") >= 1 => model_kind = "response"
  /\ (Ended /\ model_kind = "response") => Count(trace, "extract") = 1
  /\ (Ended /\ model_kind \in {"APIError", "Exception"}) => Count(trace, "extract") = 0
C18_Witness ==
  /\ pc = "returned"
  /\ model_kind = "response"
  /\ last_resp.err \in RequestErrors
  /\ image = "None"
  /\ trace = <<"fetch", "sleep", "fetch", "image_get", "generate", "sleep", "extract">>

\* C19: a non-network exception raised while handling a fetched page, on
\* any attempt, makes the scraper return the parse-failure pair at once: no
\* further page fetch, no jitter sleep after the exception, and the rest of
\* the retry budget is not used.
ParseExceptionRaised ==
  last_resp.err = "" /\ ~_looks_like_captcha(last_resp.html) /\ last_resp.html.malformed
C19_ParseFailureShortCircuit ==
  ParseExceptionRaised =>
    /\ pc # "scrape"
    /\ HasPrefix(brand, <<"jie", "xi", "shi1", "bai", ":", " ">>)
    /\ sold_by = brand
    /\ Count(ScraperTrace, "fetch") = attempt + 1
    /\ ScraperTrace = FailTrace(attempt + 1)
    /\ ScraperTrace[Len(ScraperTrace)] = "fetch"
    /\ (pc = "returned" => res["Brand (Amazon)"] = PyStr(brand))
C19_Witness ==
  /\ ParseExceptionRaised
  /\ pc = "image"
  /\ attempt = 1
  /\ max_retries = 3
  /\ trace = <<"fetch", "sleep", "fetch">>

\* C20: in a batch run at least one jitter sleep occurs between any two
\* consecutive page fetches, be they two attempts of one scraper run or the
\* last fetch of one row and the first fetch of a later row, whatever the
\* outcome of the earlier fetch (network error, block page, parse failure,
\* success).
PageFetched == pc = "scrape" /\ Len(trace') > Len(trace)
C20_PacedFetches == [][PageFetched => since_fetch # "nosleep"]_vars
C20_Witness ==
  /\ entry = "app"
  /\ i = 1
  /\ df[1]["Brand (Amazon)"] = <<"Captcha Blocked">>
  /\ df[1]["ZongHeFengXianDengJi"] = <<"A", "P", "I", " ", "E", "R", "R", "O", "R">>
  /\ pc = "image"
  /\ trace = <<"fetch">>
  /\ since_fetch = "nosleep"

====
